---- MODULE Spec2Model ----
(***************************************************************************)
(* Toastmasters timer: the display (authority) consuming the command queue *)
(* of a club, its local mirror of the club document, its render loop with  *)
(* the overtime beep, and the controllers that append commands.            *)
(*                                                                         *)
(* Store operations (updateDoc, deleteDoc, addDoc) take effect when they   *)
(* are issued or fail there; the awaiting code resumes in a later step.    *)
(* Snapshot callbacks are separate steps: the mirror and the command       *)
(* snapshots lag the store by an arbitrary number of steps.                *)
(***************************************************************************)
EXTENDS Integers, Sequences, FiniteSets, TLC

VARIABLES
    store,                \* the club document in Firestore: [state, config]
    commands,             \* the commands sub-collection, in append order
    currentClub,          \* display: local mirror of the club document
    processedCommandIds,  \* display: ids whose processing has completed
    handlers,             \* display: invocations of the commands callback
    lastSnapshot,         \* the queue as the commands listener last saw it
    now,                  \* display: Date.now() in ms
    audioUnlocked,        \* audio.ts: audioUnlocked
    shown,                \* display: what the last updateDisplay rendered
    usedIds,              \* document ids given out by addDoc so far
    failures,             \* store calls that have failed so far
    applyCount,           \* history: per id, runs of processCommand's switch
    delivered,            \* history: ids of the snapshot delivered by this step
    fired,                \* history: beeps played since the last status write
    input,                \* arguments handed to a function of lib/timer.ts
    output,               \* what the function returned for them
    display,              \* display: clubId, the view shown, the error shown
    controller,           \* controller: clubId, the view shown, the error shown
    escaped,              \* handlers whose promise was rejected with no catch
    restart,              \* history: the store and the counts at the last reload
    other,                \* a second display: its module state while it waits
    controllerTimer       \* controller: its mirror, its clock, the time it shows

vars == <<store, commands, currentClub, processedCommandIds, handlers,
          lastSnapshot, now, audioUnlocked, shown, usedIds, failures,
          applyCount, delivered, fired, input, output, display, controller,
          escaped, restart, other, controllerTimer>>

\* What the steps of the display and the controllers leave alone.
sideVars == <<input, output, display, controller, escaped, restart, other,
              controllerTimer>>

----------------------------------------------------------------------------
(* Bounds *)

MaxElapsed == 330
MaxBeepCount == 5
MaxCmds == 2
MaxHandlers == 2
MaxSentAt == 2
MaxTicks == 1
MaxFailures == 1
MaxRestarts == 1
MaxSkewMs == 2000
RenderMaxTicks == 10
TickMs == 30000
FiredCap == 6

----------------------------------------------------------------------------
(* types.ts *)

NoClub == [absent |-> TRUE]
Null == "null"
NullMs == -1
\* A payload property that is not there reads as undefined; one that is there
\* need not be a number.
Undefined == -2
NotANumber == -3
EmptyPayload == [empty |-> TRUE]

ClubStatus == {"idle", "armed", "running", "stopped"}
OvertimeMode == {"none", "once", "repeatedly"}
CommandType == {"SET_PRESET", "START", "STOP", "RESET", "UPDATE_CONFIG"}

DEFAULT_PRESETS ==
    << [id |-> "p_1_2", lower |-> 60, mid |-> 90, upper |-> 120],
       [id |-> "p_2_3", lower |-> 120, mid |-> 150, upper |-> 180] >>

DEFAULT_CONFIG ==
    [presets |-> DEFAULT_PRESETS, showTimer |-> TRUE, overtimeMode |-> "once"]

INITIAL_CLUB_STATE ==
    [status |-> "idle", presetId |-> Null, lowerSec |-> 0, midSec |-> 0,
     upperSec |-> 0, startedAtMs |-> NullMs, beeped |-> FALSE, beepCount |-> 0,
     seq |-> 0]

OVERTIME_BEEP_SCHEDULE == <<30, 60, 120, 180>>

----------------------------------------------------------------------------
(* lib/timer.ts *)

formatTime(seconds) ==
    LET a == IF seconds < 0 THEN 0 - seconds ELSE seconds
    IN  [sign |-> IF seconds < 0 THEN "-" ELSE "", mins |-> a \div 60,
         secs |-> a % 60]

getElapsedWrapped(startedAtMs, t) ==
    IF startedAtMs = NullMs THEN 0 ELSE ((t - startedAtMs) \div 1000) % 60

getElapsedSeconds(startedAtMs, t) ==
    IF startedAtMs = NullMs THEN 0 ELSE (t - startedAtMs) \div 1000

getColorZoneInclusive(elapsed, lowerSec, midSec, upperSec) ==
    IF elapsed <= lowerSec THEN "neutral"
    ELSE IF elapsed <= midSec THEN "green"
    ELSE IF elapsed <= upperSec THEN "amber"
    ELSE "red"

getColorZone(elapsed, lowerSec, midSec, upperSec) ==
    IF elapsed < lowerSec THEN "neutral"
    ELSE IF elapsed < midSec THEN "green"
    ELSE IF elapsed < upperSec THEN "amber"
    ELSE "red"

shouldBeepNoGrace(elapsed, upperSec, beeped, beepCount, overtimeMode) ==
    IF overtimeMode = "none" THEN FALSE
    ELSE IF overtimeMode = "once" THEN ~beeped
    ELSE IF beepCount >= Len(OVERTIME_BEEP_SCHEDULE) THEN FALSE
    ELSE elapsed - upperSec >= OVERTIME_BEEP_SCHEDULE[beepCount + 1]

\* shouldBeep without the test of beepCount against the length of the
\* schedule: past the last entry it goes on with the last entry.
shouldBeepUncapped(elapsed, upperSec, beeped, beepCount, overtimeMode) ==
    LET overtime == elapsed - upperSec
        k == IF beepCount >= Len(OVERTIME_BEEP_SCHEDULE)
             THEN Len(OVERTIME_BEEP_SCHEDULE) ELSE beepCount + 1
    IN  IF overtimeMode = "none" THEN FALSE
        ELSE IF overtime < 30 THEN FALSE
        ELSE IF overtimeMode = "once" THEN ~beeped
        ELSE overtime >= OVERTIME_BEEP_SCHEDULE[k]

shouldBeep(elapsed, upperSec, beeped, beepCount, overtimeMode) ==
    LET overtime == elapsed - upperSec
    IN  IF overtimeMode = "none" THEN FALSE
        ELSE IF overtime < 30 THEN FALSE
        ELSE IF overtimeMode = "once" THEN ~beeped
        ELSE IF beepCount >= Len(OVERTIME_BEEP_SCHEDULE) THEN FALSE
        ELSE overtime >= OVERTIME_BEEP_SCHEDULE[beepCount + 1]

getDisplayColorClass(state, t) ==
    IF state.status \in {"idle", "armed"} THEN "color-neutral"
    ELSE LET elapsed == getElapsedSeconds(state.startedAtMs, t)
         IN  CASE getColorZone(elapsed, state.lowerSec, state.midSec,
                               state.upperSec) = "neutral" -> "color-neutral"
               [] getColorZone(elapsed, state.lowerSec, state.midSec,
                               state.upperSec) = "green" -> "color-green"
               [] getColorZone(elapsed, state.lowerSec, state.midSec,
                               state.upperSec) = "amber" -> "color-amber"
               [] OTHER -> "color-red"

formatPresetRange(lowerSec, upperSec) == <<lowerSec \div 60, upperSec \div 60>>

\* The text and, for 'Set: a-b min', the range it carries.
getStatusText(state) ==
    CASE state.status = "idle" -> [text |-> "Ready", range |-> << >>]
      [] state.status = "armed" ->
            [text |-> "Set",
             range |-> formatPresetRange(state.lowerSec, state.upperSec)]
      [] state.status = "running" -> [text |-> "Running", range |-> << >>]
      [] OTHER -> [text |-> "Stopped", range |-> << >>]

isOvertime(elapsed, upperSec) == elapsed >= upperSec

\* A call of one of these functions: its arguments, then its result.
NoInput == [fn |-> "none"]
NoOutput == [done |-> FALSE]

Returned(v) == [done |-> TRUE, value |-> v]

EvalShouldBeep ==
    /\ input.fn = "shouldBeep"
    /\ ~output.done
    /\ output' = Returned(shouldBeep(input.elapsed, input.upperSec,
                                    input.beeped, input.beepCount,
                                    input.overtimeMode))
    /\ UNCHANGED <<store, commands, currentClub, processedCommandIds, handlers,
                   lastSnapshot, now, audioUnlocked, shown, usedIds, failures,
                   applyCount, delivered, fired, input, display, controller,
                   escaped, restart, other, controllerTimer>>

EvalColorZone ==
    /\ input.fn = "getColorZone"
    /\ ~output.done
    /\ output' = Returned(getColorZone(input.elapsed, input.lowerSec,
                                      input.midSec, input.upperSec))
    /\ UNCHANGED <<store, commands, currentClub, processedCommandIds, handlers,
                   lastSnapshot, now, audioUnlocked, shown, usedIds, failures,
                   applyCount, delivered, fired, input, display, controller,
                   escaped, restart, other, controllerTimer>>

----------------------------------------------------------------------------
(* lib/firestore.ts *)

\* updateDoc with one dotted path per key: a field-level merge.
MergeFields(rec, patch) ==
    [k \in DOMAIN rec \cup DOMAIN patch |->
        IF k \in DOMAIN patch THEN patch[k] ELSE rec[k]]

\* A write that creates the document it does not find (setDoc with merge).
updateClubStateUpsert(club, patch) ==
    IF club = NoClub
    THEN [state |-> MergeFields(INITIAL_CLUB_STATE, patch),
          config |-> DEFAULT_CONFIG]
    ELSE [club EXCEPT !.state = MergeFields(club.state, patch)]

\* updateDoc writes nothing when the document does not exist (it fails with
\* not-found).
updateClubState(club, patch) ==
    IF club = NoClub THEN NoClub
    ELSE [club EXCEPT !.state = MergeFields(club.state, patch)]

updateClubConfig(club, patch) ==
    IF club = NoClub THEN NoClub
    ELSE [club EXCEPT !.config = MergeFields(club.config, patch)]

RemoveId(q, id) == SelectSeq(q, LAMBDA c : c.id # id)

deleteCommand(q, id) == RemoveId(q, id)

\* The order of orderBy('sentAtMs', 'asc'); Firestore orders equal keys by
\* document id.
Before(a, b) ==
    \/ a.sentAtMs < b.sentAtMs
    \/ a.sentAtMs = b.sentAtMs /\ a.id < b.id

RECURSIVE InsertSorted(_, _)
InsertSorted(c, s) ==
    IF s = << >> THEN <<c>>
    ELSE IF Before(c, Head(s)) THEN <<c>> \o s
    ELSE <<Head(s)>> \o InsertSorted(c, Tail(s))

RECURSIVE OrderBySentAt(_)
OrderBySentAt(q) ==
    IF q = << >> THEN << >>
    ELSE InsertSorted(Head(q), OrderBySentAt(Tail(q)))

\* The snapshot the commands query delivers.
AppendOrder(q) == q

subscribeToCommands(q) == OrderBySentAt(q)

Ids(q) == {q[k].id : k \in 1..Len(q)}

----------------------------------------------------------------------------
(* control/main.ts: what a controller appends *)

CommandIds == 1..MaxCmds

\* A payload with the lower and the upper threshold exchanged.
presetPayloadSwapped(preset) ==
    [presetId |-> preset.id, lowerSec |-> preset.upper, midSec |-> preset.mid,
     upperSec |-> preset.lower]

\* handlePresetSelect: the payload made from the preset of the button.
presetPayload(preset) ==
    [presetId |-> preset.id, lowerSec |-> preset.lower, midSec |-> preset.mid,
     upperSec |-> preset.upper]

\* The (type, payload) pairs of handlePresetSelect, handleStart, handleStop,
\* handleReset and handleOvertimeModeChange.
Intents ==
    {[type |-> "SET_PRESET", payload |-> presetPayload(DEFAULT_PRESETS[2])]}
    \cup {[type |-> t, payload |-> EmptyPayload] : t \in {"START", "STOP", "RESET"}}
    \cup {[type |-> "UPDATE_CONFIG", payload |-> [overtimeMode |-> "repeatedly"]]}

\* handleShowTimerChange added: the commands of all six handlers.
ControllerIntents ==
    Intents \cup {[type |-> "UPDATE_CONFIG", payload |-> [showTimer |-> FALSE]]}

\* Commands the types allow but no handler of this controller sends: a patch
\* with a new preset list, and SET_PRESET payloads that are not of the shape
\* SetPresetPayload (thresholds missing, thresholds that are not numbers).
ForeignIntents ==
    {[type |-> "UPDATE_CONFIG",
      payload |-> [presets |-> <<DEFAULT_PRESETS[2]>>]],
     [type |-> "SET_PRESET", payload |-> [presetId |-> DEFAULT_PRESETS[2].id]],
     [type |-> "SET_PRESET",
      payload |-> [presetId |-> DEFAULT_PRESETS[2].id, lowerSec |-> NotANumber,
                   midSec |-> NotANumber, upperSec |-> NotANumber]]}

sendCommandAndWrite(intent, sentAtMs, id) ==
    /\ UNCHANGED sideVars
    /\ id \notin usedIds
    /\ commands' = Append(commands,
                          [id |-> id, type |-> intent.type,
                           payload |-> intent.payload, sentAtMs |-> sentAtMs])
    /\ usedIds' = usedIds \cup {id}
    /\ delivered' = {}
    /\ store' = IF intent.type = "UPDATE_CONFIG"
                THEN [store EXCEPT !.config =
                         [k \in DOMAIN @ \cup DOMAIN intent.payload |->
                             IF k \in DOMAIN intent.payload
                             THEN intent.payload[k] ELSE @[k]]]
                ELSE store
    /\ UNCHANGED <<currentClub, processedCommandIds, handlers, lastSnapshot,
                   now, audioUnlocked, shown, failures, applyCount, fired>>

\* sendCommand: addDoc of the command stamped with the sender's clock; the
\* document id is Firestore's choice.
sendCommand(intent, sentAtMs, id) ==
    /\ UNCHANGED sideVars
    /\ id \notin usedIds
    /\ commands' = Append(commands,
                          [id |-> id, type |-> intent.type,
                           payload |-> intent.payload, sentAtMs |-> sentAtMs])
    /\ usedIds' = usedIds \cup {id}
    /\ delivered' = {}
    /\ UNCHANGED <<store, currentClub, processedCommandIds, handlers,
                   lastSnapshot, now, audioUnlocked, shown, failures,
                   applyCount, fired>>

----------------------------------------------------------------------------
(* display/main.ts: command processing *)

Idle == [pc |-> "idle"]
Slots == 1..MaxHandlers

Min(a, b) == IF a < b THEN a ELSE b

NoFired == [once |-> 0, rep |-> 0]

\* The outcomes a store call issued now can have.
Outcomes == IF failures < MaxFailures THEN BOOLEAN ELSE {TRUE}

\* processCommand, case 'START': the status test.
startAllowed(status) == status = "armed" \/ status = "stopped"

\* processCommand, case 'STOP': the status test.
stopAllowed(status) == status = "running"

\* Every threshold read from payload.lowerSec.
FieldOfLower(payload, k) ==
    IF "lowerSec" \in DOMAIN payload THEN payload.lowerSec ELSE Undefined

\* payload.<k> of a payload cast to SetPresetPayload.
Field(payload, k) == IF k \in DOMAIN payload THEN payload[k] ELSE Undefined

\* processCommand, the switch: the write the command asks for, decided
\* against the display's mirror.
CommandWrite(command, club, t) ==
    CASE command.type = "SET_PRESET" ->
            [kind |-> "state",
             patch |-> [status |-> "armed",
                        presetId |-> command.payload.presetId,
                        lowerSec |-> Field(command.payload, "lowerSec"),
                        midSec |-> Field(command.payload, "midSec"),
                        upperSec |-> Field(command.payload, "upperSec"),
                        startedAtMs |-> NullMs, beeped |-> FALSE,
                        beepCount |-> 0]]
      [] command.type = "START" ->
            IF startAllowed(club.state.status)
            THEN [kind |-> "state",
                  patch |-> [status |-> "running", startedAtMs |-> t,
                             beeped |-> FALSE, beepCount |-> 0]]
            ELSE [kind |-> "none"]
      [] command.type = "STOP" ->
            IF stopAllowed(club.state.status)
            THEN [kind |-> "state", patch |-> [status |-> "stopped"]]
            ELSE [kind |-> "none"]
      [] command.type = "RESET" ->
            [kind |-> "state",
             patch |-> [status |-> "idle", presetId |-> Null, lowerSec |-> 0,
                        midSec |-> 0, upperSec |-> 0, startedAtMs |-> NullMs,
                        beeped |-> FALSE, beepCount |-> 0]]
      [] OTHER ->
            [kind |-> "config", patch |-> command.payload]

ApplyWriteToState(club, w) == updateClubState(club, w.patch)

\* A write that also puts the configuration back to its defaults.
ApplyWriteResetConfig(club, w) ==
    IF club = NoClub THEN NoClub
    ELSE IF w.kind = "state"
    THEN [state |-> updateClubState(club, w.patch).state,
          config |-> DEFAULT_CONFIG]
    ELSE updateClubConfig(club, w.patch)

ApplyWrite(club, w) ==
    IF w.kind = "state" THEN updateClubState(club, w.patch)
    ELSE updateClubConfig(club, w.patch)

\* updateDoc throws on a field value of undefined before anything is sent.
Rejected(w) ==
    /\ w.kind = "state"
    /\ \E k \in {"lowerSec", "midSec", "upperSec"} \cap DOMAIN w.patch :
          w.patch[k] = Undefined

\* The callback's test processedCommandIds.has(command.id).
HasProcessedNever(proc, id) == FALSE

HasProcessed(proc, id) == id \in proc

\* The callback's processedCommandIds.add(command.id).
RecordNothing(proc, id) == proc

RecordProcessed(proc, id) == proc \cup {id}

RECURSIVE NextUnprocessed(_, _, _)
NextUnprocessed(cmds, i, proc) ==
    IF i > Len(cmds) THEN 0
    ELSE IF ~HasProcessed(proc, cmds[i].id) THEN i
    ELSE NextUnprocessed(cmds, i + 1, proc)

\* processCommand with the delete issued together with the update, before the
\* update has settled.
BeginCommandDeleteEarly(h, cmds, j, proc, ok) ==
    LET c == cmds[j]
        w == CommandWrite(c, currentClub, now)
        sent == ok /\ w.kind # "none" /\ ~Rejected(w)
        done == sent /\ store # NoClub
    IN  /\ processedCommandIds' = proc
        /\ applyCount' = [applyCount EXCEPT ![c.id] = @ + 1]
        /\ failures' = IF ok THEN failures ELSE failures + 1
        /\ store' = IF sent THEN ApplyWrite(store, w) ELSE store
        /\ fired' = IF done /\ w.kind = "state" THEN NoFired ELSE fired
        /\ commands' = deleteCommand(commands, c.id)
        /\ handlers' = [handlers EXCEPT ![h] =
               [cmds |-> cmds, i |-> j, noop |-> w.kind = "none",
                pc |-> IF w.kind = "none"
                       THEN (IF ok THEN "awaitDelete" ELSE "deleteFailed")
                       ELSE IF done THEN "awaitUpdate" ELSE "updateFailed"]]

\* processCommand up to its first await, for cmds[j]: the update is issued,
\* or, when the command asks for none, the delete.
BeginCommand(h, cmds, j, proc, ok) ==
    LET c == cmds[j]
        w == CommandWrite(c, currentClub, now)
    IN  /\ processedCommandIds' = proc
        /\ applyCount' = [applyCount EXCEPT ![c.id] = @ + 1]
        /\ failures' = IF ok THEN failures ELSE failures + 1
        /\ IF w.kind = "none"
           THEN /\ store' = store
                /\ fired' = fired
                /\ commands' = IF ok THEN deleteCommand(commands, c.id)
                               ELSE commands
                /\ handlers' = [handlers EXCEPT ![h] =
                       [cmds |-> cmds, i |-> j, noop |-> TRUE,
                        pc |-> IF ok THEN "awaitDelete" ELSE "deleteFailed"]]
           ELSE LET sent == ok /\ ~Rejected(w)
                    done == sent /\ store # NoClub
                IN  /\ store' = IF sent THEN ApplyWrite(store, w) ELSE store
                    /\ fired' = IF done /\ w.kind = "state" THEN NoFired
                                ELSE fired
                    /\ commands' = commands
                    /\ handlers' = [handlers EXCEPT ![h] =
                           [cmds |-> cmds, i |-> j, noop |-> FALSE,
                            pc |-> IF done THEN "awaitUpdate"
                                   ELSE "updateFailed"]]

\* The callback's loop from position i on, until it suspends in processCommand
\* or runs out of commands.  Without a mirror processCommand returns at once
\* and the id is recorded all the same.
RunLoop(h, cmds, i, proc, ok) ==
    IF currentClub = NoClub
    THEN /\ ok
         /\ processedCommandIds' =
                proc \cup {cmds[k].id : k \in i..Len(cmds)}
         /\ handlers' = [handlers EXCEPT ![h] = Idle]
         /\ UNCHANGED <<store, commands, applyCount, fired, failures>>
    ELSE LET j == NextUnprocessed(cmds, i, proc)
         IN  IF j = 0
             THEN /\ ok
                  /\ processedCommandIds' = proc
                  /\ handlers' = [handlers EXCEPT ![h] = Idle]
                  /\ UNCHANGED <<store, commands, applyCount, fired, failures>>
             ELSE BeginCommand(h, cmds, j, proc, ok)

FreeSlot(h) ==
    /\ handlers[h] = Idle
    /\ \A g \in Slots : g < h => handlers[g] # Idle

\* The onSnapshot callback of subscribeToCommands, called when the result of
\* the query has changed: a new invocation of the async callback of
\* startSubscriptions with the pending commands.
OnCommandsSnapshot(h, ok) ==
    /\ UNCHANGED sideVars
    /\ commands # lastSnapshot
    /\ FreeSlot(h)
    /\ lastSnapshot' = commands
    /\ delivered' = Ids(commands)
    /\ RunLoop(h, subscribeToCommands(commands), 1, processedCommandIds, ok)
    /\ UNCHANGED <<currentClub, now, audioUnlocked, shown, usedIds>>

\* An awaited store call of invocation h settles.
ResumeHandler(h, ok) ==
    /\ UNCHANGED sideVars
    /\ handlers[h] # Idle
    /\ delivered' = {}
    /\ LET hd == handlers[h]
           c == hd.cmds[hd.i]
       IN  IF hd.pc = "awaitUpdate"
           THEN \* processCommand goes on to deleteCommand
                /\ commands' = IF ok THEN deleteCommand(commands, c.id)
                               ELSE commands
                /\ failures' = IF ok THEN failures ELSE failures + 1
                /\ handlers' = [handlers EXCEPT ![h].pc =
                                   IF ok THEN "awaitDelete" ELSE "deleteFailed"]
                /\ UNCHANGED <<store, processedCommandIds, applyCount, fired>>
           ELSE \* processCommand returns (a failure was caught and logged);
                \* the callback records the id and goes on
                RunLoop(h, hd.cmds, hd.i + 1,
                        RecordProcessed(processedCommandIds, c.id), ok)
    /\ UNCHANGED <<currentClub, lastSnapshot, now, audioUnlocked, shown,
                   usedIds>>

\* The onSnapshot callback of subscribeToClub, called with a club.
OnClubSnapshot ==
    /\ UNCHANGED sideVars
    /\ store # NoClub
    /\ currentClub # store
    /\ currentClub' = store
    /\ delivered' = {}
    /\ UNCHANGED <<store, commands, processedCommandIds, handlers,
                   lastSnapshot, now, audioUnlocked, shown, usedIds, failures,
                   applyCount, fired>>

----------------------------------------------------------------------------
(* display/main.ts: render loop and beep *)

Tick(maxTicks) ==
    /\ UNCHANGED sideVars
    /\ now + TickMs <= maxTicks * TickMs
    /\ now' = now + TickMs
    /\ delivered' = {}
    /\ UNCHANGED <<store, commands, currentClub, processedCommandIds, handlers,
                   lastSnapshot, audioUnlocked, shown, usedIds, failures,
                   applyCount, fired>>

handleAudioUnlock ==
    /\ UNCHANGED sideVars
    /\ ~audioUnlocked
    /\ audioUnlocked' = TRUE
    /\ delivered' = {}
    /\ UNCHANGED <<store, commands, currentClub, processedCommandIds, handlers,
                   lastSnapshot, now, shown, usedIds, failures, applyCount,
                   fired>>

Hidden == [hidden |-> TRUE]

\* updateDisplay: the elapsed seconds of a frame.
FrameElapsed(state, t) ==
    IF state.status = "running" \/ state.status = "stopped"
    THEN getElapsedSeconds(state.startedAtMs, t) ELSE 0

\* updateDisplay: what one frame puts on the screen.
Frame(club, t) ==
    [color |-> getDisplayColorClass(club.state, t),
     time |-> IF club.config.showTimer
              THEN formatTime(FrameElapsed(club.state, t)) ELSE Hidden,
     status |-> getStatusText(club.state),
     overtime |-> club.state.status = "running"
                  /\ isOvertime(FrameElapsed(club.state, t),
                                club.state.upperSec)]

\* updateDisplay's beep test.
BeepDue(club, t) ==
    /\ club.state.status = "running"
    /\ shouldBeep(FrameElapsed(club.state, t), club.state.upperSec,
                  club.state.beeped, club.state.beepCount,
                  club.config.overtimeMode)
    /\ audioUnlocked

\* A beep write that sets the flag and leaves the count.
BeepPatchFlagOnly(club) == [beeped |-> TRUE]

\* triggerBeep: the state patch it writes.
BeepPatch(club) ==
    [beeped |-> TRUE, beepCount |-> club.state.beepCount + 1]

\* One frame of the render loop: updateDisplay and, when due, triggerBeep
\* (the beep is played, then the update is issued).
Render(ok) ==
    /\ UNCHANGED sideVars
    /\ currentClub # NoClub
    /\ shown' = Frame(currentClub, now)
    /\ IF BeepDue(currentClub, now)
       THEN /\ fired' = IF currentClub.config.overtimeMode = "once"
                        THEN [fired EXCEPT !.once = Min(@ + 1, FiredCap)]
                        ELSE [fired EXCEPT !.rep = Min(@ + 1, FiredCap)]
            /\ store' = IF ok
                        THEN updateClubState(store, BeepPatch(currentClub))
                        ELSE store
            /\ failures' = IF ok THEN failures ELSE failures + 1
       ELSE /\ ok
            /\ UNCHANGED <<store, fired, failures>>
    /\ delivered' = {}
    /\ UNCHANGED <<commands, currentClub, processedCommandIds, handlers,
                   lastSnapshot, now, audioUnlocked, usedIds, applyCount>>

----------------------------------------------------------------------------
(* display/main.ts and control/main.ts: loading a club *)

\* No reload yet.
NoRestart ==
    [n |-> 0, store |-> NoClub, queue |-> << >>,
     applied |-> [id \in CommandIds |-> 0]]

\* No second display.
NoDisplay == [absent |-> TRUE]

\* The controller's '--:--'.
NoTime == [dashes |-> TRUE]

\* The controller's buttons before the first club snapshot: the preset grid is
\* empty; the other three are as the page's markup has them and are not read
\* before updateButtonStates has set them.
NoButtons ==
    [start |-> FALSE, stop |-> FALSE, reset |-> FALSE, presets |-> FALSE,
     grid |-> << >>]

\* control/main.ts, updateButtonStates: which buttons are enabled (the preset
\* buttons that are in the grid at that moment included).
updateButtonStates(buttons, state) ==
    [buttons EXCEPT
        !.start = state.status \in {"armed", "stopped"},
        !.stop = state.status = "running",
        !.reset = state.status # "idle",
        !.presets = state.status # "running"]

\* control/main.ts, generatePresetButtons: the grid is filled with one new
\* button for each preset of the list, and new buttons are enabled.
generatePresetButtons(buttons, presets) ==
    [buttons EXCEPT !.presets = TRUE, !.grid = presets]

\* A controller before its first club snapshot, its clock equal to the
\* display's.
NoTimer ==
    [currentClub |-> NoClub, skewMs |-> 0, time |-> NoTime,
     buttons |-> NoButtons]

\* The one club id the users type in or scan.
TheClub == "club"

Unloaded(v) ==
    [clubId |-> Null, view |-> v, subscribed |-> FALSE, op |-> "none",
     got |-> "none", error |-> "", pc |-> "idle"]

\* createClub: the document a new club starts as.
createClub == [state |-> INITIAL_CLUB_STATE, config |-> DEFAULT_CONFIG]

loadVars == <<commands, currentClub, processedCommandIds, handlers,
              lastSnapshot, now, audioUnlocked, shown, usedIds, applyCount,
              fired, input, output, restart, other, controllerTimer>>

\* loadClub, awaited by init (whose promise has a catch) or by the click
\* handler handleJoinClub (whose promise has none); ok: getClub succeeds.
loadClub(caller, ok) ==
    /\ ~display.subscribed
    /\ display.pc = "idle"
    /\ display.view = (IF caller = "init" THEN "boot" ELSE "setup")
    /\ failures' = IF ok THEN failures ELSE failures + 1
    /\ IF ~ok
       THEN /\ display' = [display EXCEPT
                   !.clubId = TheClub, !.op = "loadClub",
                   !.error = IF caller = "init" THEN "Failed to initialize"
                             ELSE ""]
            /\ escaped' = IF caller = "init" THEN escaped
                          ELSE escaped \cup {caller}
       ELSE /\ escaped' = escaped
            /\ display' =
                  IF store = NoClub
                  THEN [clubId |-> Null, view |-> "setup",
                        subscribed |-> FALSE, op |-> "loadClub",
                        got |-> "null", error |-> "not found",
                        pc |-> "idle"]
                  ELSE [clubId |-> TheClub, view |-> "timer",
                        subscribed |-> TRUE, op |-> "loadClub",
                        got |-> "club", error |-> "", pc |-> "idle"]
    /\ delivered' = {}
    /\ UNCHANGED <<store, controller>>
    /\ UNCHANGED loadVars

\* handleCreateClub up to its await of getClub, which stands before its try;
\* ok: getClub succeeds.
handleCreateClub(ok) ==
    /\ ~display.subscribed
    /\ display.view = "setup"
    /\ display.pc = "idle"
    /\ failures' = IF ok THEN failures ELSE failures + 1
    /\ escaped' = IF ok THEN escaped ELSE escaped \cup {"handleCreateClub"}
    /\ display' = IF ok
                  THEN [display EXCEPT
                           !.op = "handleCreateClub", !.error = "",
                           !.got = IF store = NoClub THEN "null" ELSE "club",
                           !.pc = "awaitGetClub"]
                  ELSE [display EXCEPT !.op = "handleCreateClub",
                                       !.error = ""]
    /\ delivered' = {}
    /\ UNCHANGED <<store, controller>>
    /\ UNCHANGED loadVars

\* handleCreateClub from the result of getClub on: the error for a club that
\* was found, or createClub (a setDoc of the initial document) and loadClub;
\* ok: the calls inside its try succeed.
ResumeCreateClub(ok) ==
    /\ display.pc = "awaitGetClub"
    /\ IF display.got = "club"
       THEN /\ ok
            /\ display' = [display EXCEPT !.error = "already exists",
                                          !.pc = "idle"]
            /\ UNCHANGED <<store, failures>>
       ELSE IF ok
       THEN /\ store' = createClub
            /\ display' = [clubId |-> TheClub, view |-> "timer",
                           subscribed |-> TRUE, op |-> "handleCreateClub",
                           got |-> "club", error |-> "", pc |-> "idle"]
            /\ failures' = failures
       ELSE /\ failures' = failures + 1
            /\ display' = [display EXCEPT !.error = "Failed to create club",
                                          !.pc = "idle"]
            /\ store' = store
    /\ delivered' = {}
    /\ UNCHANGED <<controller, escaped>>
    /\ UNCHANGED loadVars

\* connectToClub, awaited by init or by the click handler handleManualJoin;
\* ok: clubExists succeeds.
connectToClub(caller, ok) ==
    /\ ~controller.subscribed
    /\ controller.view = (IF caller = "init" THEN "boot" ELSE "scanner")
    /\ failures' = IF ok THEN failures ELSE failures + 1
    /\ IF ~ok
       THEN /\ controller' = [controller EXCEPT
                   !.clubId = TheClub, !.op = "connectToClub",
                   !.error = IF caller = "init" THEN "Failed to initialize"
                             ELSE ""]
            /\ escaped' = IF caller = "init" THEN escaped
                          ELSE escaped \cup {caller}
       ELSE /\ escaped' = escaped
            /\ controller' =
                  IF store = NoClub
                  THEN [controller EXCEPT !.clubId = Null,
                                         !.op = "connectToClub",
                                         !.got = "null",
                                         !.error = "not found"]
                  ELSE [clubId |-> TheClub, view |-> "controller",
                        subscribed |-> TRUE, op |-> "connectToClub",
                        got |-> "club", error |-> "", pc |-> "idle"]
    /\ delivered' = {}
    /\ UNCHANGED <<store, display>>
    /\ UNCHANGED loadVars

\* addDoc gives a new command the next free document id.
LowestFreeId(id) == id \notin usedIds /\ \A k \in CommandIds : k < id => k \in usedIds

\* The controller's buttons: each handler returns at once without a clubId.
ControllerReady == controller.clubId # Null /\ controller.view = "controller"

\* The controller's page is loaded again: replaceState has put the club into
\* its URL, the module's state starts over and init runs.
ReloadController ==
    /\ controller.subscribed
    /\ controller' = Unloaded("boot")
    /\ delivered' = {}
    /\ UNCHANGED <<store, failures, display, escaped>>
    /\ UNCHANGED loadVars

\* The club document is deleted by hand while the clients use it.
DeleteClub ==
    /\ store # NoClub
    /\ display.subscribed \/ controller.subscribed
    /\ store' = NoClub
    /\ delivered' = {}
    /\ UNCHANGED <<failures, display, controller, escaped>>
    /\ UNCHANGED loadVars

\* The onSnapshot callback of subscribeToClub, called with null: the error is
\* shown, the mirror stays.
OnClubMissing ==
    /\ display.subscribed
    /\ store = NoClub
    /\ display.error # "Club not found"
    /\ display' = [display EXCEPT !.error = "Club not found"]
    /\ delivered' = {}
    /\ UNCHANGED <<store, failures, controller, escaped>>
    /\ UNCHANGED loadVars

\* The display's page is loaded again with the club in its URL: the module
\* state starts over (no mirror, no processed ids, the callbacks in progress
\* are gone, audio locked), init runs loadClub, which finds the club and
\* starts new subscriptions.
RestartDisplay ==
    /\ display.subscribed
    /\ store # NoClub
    /\ restart.n < MaxRestarts
    /\ restart' = [n |-> restart.n + 1, store |-> store, queue |-> commands,
                   applied |-> applyCount]
    /\ currentClub' = NoClub
    /\ processedCommandIds' = {}
    /\ handlers' = [h \in Slots |-> Idle]
    /\ lastSnapshot' = << >>
    /\ audioUnlocked' = FALSE
    /\ shown' = [color |-> "color-neutral", time |-> Hidden,
                 status |-> [text |-> "", range |-> << >>], overtime |-> FALSE]
    /\ delivered' = {}
    /\ UNCHANGED <<store, commands, now, usedIds, failures, applyCount, fired,
                   input, output, display, controller, escaped, other,
                   controllerTimer>>

\* control/main.ts: the club callback of connectToClub, called with a club:
\* the mirror is set, updateUI sets the buttons and, on the first call, the
\* preset buttons are made after that.
OnControllerClubSnapshot ==
    /\ controller.subscribed
    /\ store # NoClub
    /\ controllerTimer.currentClub # store
    /\ controllerTimer' =
          [controllerTimer EXCEPT
              !.currentClub = store,
              !.buttons =
                  IF controllerTimer.currentClub = NoClub
                  THEN generatePresetButtons(
                           updateButtonStates(@, store.state),
                           store.config.presets)
                  ELSE updateButtonStates(@, store.state)]
    /\ delivered' = {}
    /\ UNCHANGED <<store, commands, currentClub, processedCommandIds, handlers,
                   lastSnapshot, now, audioUnlocked, shown, usedIds, failures,
                   applyCount, fired, input, output, display, controller,
                   escaped, restart, other>>

\* control/main.ts, startUpdateInterval: the time the controller shows, from
\* its mirror and its own Date.now().
ControllerTime(club, t) ==
    IF club # NoClub /\ club.state.status \in {"running", "stopped"}
    THEN formatTime(getElapsedSeconds(club.state.startedAtMs, t))
    ELSE NoTime

\* One run of the interval callback.
ControllerUpdate ==
    /\ controller.subscribed
    /\ controllerTimer' = [controllerTimer EXCEPT
           !.time = ControllerTime(controllerTimer.currentClub,
                                   now + controllerTimer.skewMs)]
    /\ controllerTimer' # controllerTimer
    /\ delivered' = {}
    /\ UNCHANGED <<store, commands, currentClub, processedCommandIds, handlers,
                   lastSnapshot, now, audioUnlocked, shown, usedIds, failures,
                   applyCount, fired, input, output, display, controller,
                   escaped, restart, other>>

\* A click reaches its handler only on a button that is enabled; the two
\* settings inputs are never disabled.
Clickable(buttons, type) ==
    CASE type = "START" -> buttons.start
      [] type = "STOP" -> buttons.stop
      [] type = "RESET" -> buttons.reset
      [] type = "SET_PRESET" -> buttons.presets
      [] OTHER -> TRUE

\* A click on a control of the controller view, once the first club snapshot
\* has set the controls up: the handler sends its command.
ControllerClick(intent, id) ==
    /\ ControllerReady
    /\ controllerTimer.currentClub # NoClub
    /\ Clickable(controllerTimer.buttons, intent.type)
    /\ LowestFreeId(id)
    /\ sendCommand(intent, 1, id)

\* A click on the k-th preset button of the grid: handlePresetSelect with the
\* preset the button was made from.
handlePresetSelect(k, id) ==
    /\ k \in DOMAIN controllerTimer.buttons.grid
    /\ ControllerClick([type |-> "SET_PRESET",
                        payload |-> presetPayload(
                                       controllerTimer.buttons.grid[k])], id)

\* The module state of a display process.
LocalState ==
    [currentClub |-> currentClub, processedCommandIds |-> processedCommandIds,
     handlers |-> handlers, lastSnapshot |-> lastSnapshot,
     audioUnlocked |-> audioUnlocked, shown |-> shown,
     applyCount |-> applyCount, display |-> display]

\* The other display takes the next step: the two browser pages run the same
\* code, each on its own module state, against the one store.
SwitchDisplay ==
    /\ other # NoDisplay
    /\ other' = LocalState
    /\ currentClub' = other.currentClub
    /\ processedCommandIds' = other.processedCommandIds
    /\ handlers' = other.handlers
    /\ lastSnapshot' = other.lastSnapshot
    /\ audioUnlocked' = other.audioUnlocked
    /\ shown' = other.shown
    /\ applyCount' = other.applyCount
    /\ display' = other.display
    /\ delivered' = {}
    /\ UNCHANGED <<store, commands, now, usedIds, failures, fired, input,
                   output, controller, escaped, restart, controllerTimer>>

----------------------------------------------------------------------------
(* Specifications *)

\* States a club can be in when a display loads it: a new club, or one that an
\* earlier display left armed, running or stopped.
armedState ==
    MergeFields(INITIAL_CLUB_STATE,
                [status |-> "armed", presetId |-> DEFAULT_PRESETS[1].id,
                 lowerSec |-> DEFAULT_PRESETS[1].lower,
                 midSec |-> DEFAULT_PRESETS[1].mid,
                 upperSec |-> DEFAULT_PRESETS[1].upper])

LoadedStates ==
    {INITIAL_CLUB_STATE, armedState,
     MergeFields(armedState, [status |-> "running", startedAtMs |-> 0]),
     MergeFields(armedState, [status |-> "stopped", startedAtMs |-> 0])}

InitRest ==
    /\ commands = << >>
    /\ currentClub = NoClub
    /\ processedCommandIds = {}
    /\ handlers = [h \in Slots |-> Idle]
    /\ lastSnapshot = << >>
    /\ now = 0
    /\ audioUnlocked = FALSE
    /\ shown = [color |-> "color-neutral", time |-> Hidden,
                status |-> [text |-> "", range |-> << >>], overtime |-> FALSE]
    /\ usedIds = {}
    /\ failures = 0
    /\ applyCount = [id \in CommandIds |-> 0]
    /\ delivered = {}
    /\ fired = NoFired
    /\ output = NoOutput

\* A display that has loaded its club and started its subscriptions, a
\* controller that has connected to it.
LoadedWith(skews) ==
    /\ display = [clubId |-> "club", view |-> "timer", subscribed |-> TRUE,
                  op |-> "loadClub", got |-> "club", error |-> "", pc |-> "idle"]
    /\ controller = [clubId |-> "club", view |-> "controller",
                     subscribed |-> TRUE, op |-> "connectToClub",
                     got |-> "club", error |-> "", pc |-> "idle"]
    /\ escaped = {}
    /\ restart = NoRestart
    /\ other = NoDisplay
    /\ controllerTimer \in {[NoTimer EXCEPT !.skewMs = k] : k \in skews}

Loaded == LoadedWith({0})

InitWith(states, modes) ==
    /\ store \in {[state |-> st,
                   config |-> [DEFAULT_CONFIG EXCEPT !.overtimeMode = m]] :
                     st \in states, m \in modes}
    /\ InitRest

Init == InitWith(LoadedStates, {"once"}) /\ input = NoInput /\ Loaded

\* The command protocol: controllers with skewed clocks, concurrent callback
\* invocations, failing store calls.
Next ==
    \/ \E intent \in Intents, s \in 1..MaxSentAt, id \in CommandIds :
          sendCommand(intent, s, id)
    \/ \E h \in Slots, ok \in Outcomes : OnCommandsSnapshot(h, ok)
    \/ \E h \in Slots, ok \in Outcomes : ResumeHandler(h, ok)
    \/ OnClubSnapshot
    \/ Tick(MaxTicks)

Spec == Init /\ [][Next]_vars

\* The render loop: one controller whose commands the display takes one
\* snapshot at a time, no failing store call, the clock running through the
\* beep schedule.

InitRender ==
    InitWith(LoadedStates, {"once", "repeatedly"}) /\ input = NoInput /\ Loaded

NextRender ==
    \/ \E intent \in Intents, id \in CommandIds :
          LowestFreeId(id) /\ sendCommand(intent, 1, id)
    \/ OnCommandsSnapshot(1, TRUE)
    \/ ResumeHandler(1, TRUE)
    \/ OnClubSnapshot
    \/ Tick(RenderMaxTicks)
    \/ handleAudioUnlock
    \/ Render(TRUE)

SpecRender == InitRender /\ [][NextRender]_vars

\* The command set in full: every handler of the controller and the commands
\* of other clients, one invocation of the callback at a time, no failing store
\* call; among the clubs loaded one that has been running for two and a half
\* minutes, so that its beep is due.
overtimeState ==
    MergeFields(armedState,
                [status |-> "running", startedAtMs |-> 0 - 5 * TickMs])

InitConfig ==
    /\ InitWith(LoadedStates \cup {overtimeState}, {"once"})
    /\ input = NoInput
    /\ Loaded

NextConfig ==
    \/ \E intent \in ControllerIntents \cup ForeignIntents, id \in CommandIds :
          LowestFreeId(id) /\ sendCommand(intent, 1, id)
    \/ OnCommandsSnapshot(1, TRUE)
    \/ ResumeHandler(1, TRUE)
    \/ OnClubSnapshot
    \/ Tick(MaxTicks)
    \/ handleAudioUnlock
    \/ Render(TRUE)

SpecConfig == InitConfig /\ [][NextConfig]_vars

\* From the page load on: a display and a controller that load a club which
\* exists or not, with get, exists and create calls that can fail, and a club
\* document that can be deleted under the running clients.
InitLoad ==
    /\ store \in {NoClub} \cup
                  {[state |-> st, config |-> DEFAULT_CONFIG] :
                      st \in {INITIAL_CLUB_STATE, overtimeState}}
    /\ InitRest
    /\ input = NoInput
    /\ display \in {Unloaded(v) : v \in {"boot", "setup"}}
    /\ controller \in {Unloaded(v) : v \in {"boot", "scanner"}}
    /\ escaped = {}
    /\ restart = NoRestart
    /\ other = NoDisplay
    /\ controllerTimer = NoTimer

NextLoad ==
    \/ \E caller \in {"init", "handleJoinClub"}, ok \in Outcomes :
          loadClub(caller, ok)
    \/ \E ok \in Outcomes : handleCreateClub(ok)
    \/ \E ok \in Outcomes : ResumeCreateClub(ok)
    \/ \E caller \in {"init", "handleManualJoin"}, ok \in Outcomes :
          connectToClub(caller, ok)
    \/ ReloadController
    \/ DeleteClub
    \/ OnClubMissing
    \/ \E intent \in Intents, id \in CommandIds :
          ControllerReady /\ LowestFreeId(id) /\ sendCommand(intent, 1, id)
    \/ display.subscribed /\ OnCommandsSnapshot(1, TRUE)
    \/ display.subscribed /\ ResumeHandler(1, TRUE)
    \/ display.subscribed /\ OnClubSnapshot
    \/ display.subscribed /\ handleAudioUnlock
    \/ display.subscribed /\ Render(TRUE)

SpecLoad == InitLoad /\ [][NextLoad]_vars

\* A subscribed display and one controller with no failing store call, the
\* first snapshots of the club and of the commands arriving in either order.
\* A listener that has something to deliver delivers it, and an awaited store
\* call settles.
NextLive ==
    \/ \E intent \in Intents, id \in CommandIds :
          LowestFreeId(id) /\ sendCommand(intent, 1, id)
    \/ OnCommandsSnapshot(1, TRUE)
    \/ ResumeHandler(1, TRUE)
    \/ OnClubSnapshot

SpecLive ==
    /\ Init
    /\ [][NextLive]_vars
    /\ WF_vars(OnCommandsSnapshot(1, TRUE))
    /\ WF_vars(ResumeHandler(1, TRUE))
    /\ WF_vars(OnClubSnapshot)

\* A display that is loaded again in the middle of its work: one controller, a
\* delete call that can fail, the render loop; among the clubs loaded one
\* whose timer has been running for two and a half minutes.
NextRestart ==
    \/ \E intent \in Intents, id \in CommandIds :
          LowestFreeId(id) /\ sendCommand(intent, 1, id)
    \/ OnCommandsSnapshot(1, TRUE)
    \/ \E ok \in Outcomes :
          /\ ok \/ (handlers[1] # Idle /\ handlers[1].pc = "awaitUpdate")
          /\ ResumeHandler(1, ok)
    \/ OnClubSnapshot
    \/ Tick(MaxTicks)
    \/ handleAudioUnlock
    \/ Render(TRUE)
    \/ RestartDisplay

SpecRestart == InitConfig /\ [][NextRestart]_vars

\* Two display pages opened for the same club id, which exists or not, and
\* one controller; no failing store call.
InitTwo ==
    /\ store \in {NoClub, createClub}
    /\ InitRest
    /\ input = NoInput
    /\ display = Unloaded("setup")
    /\ controller = Unloaded("scanner")
    /\ escaped = {}
    /\ restart = NoRestart
    /\ other = LocalState
    /\ controllerTimer = NoTimer

NextTwo ==
    \/ loadClub("handleJoinClub", TRUE)
    \/ handleCreateClub(TRUE)
    \/ ResumeCreateClub(TRUE)
    \/ connectToClub("handleManualJoin", TRUE)
    \/ \E intent \in Intents, id \in CommandIds :
          ControllerReady /\ LowestFreeId(id) /\ sendCommand(intent, 1, id)
    \/ display.subscribed /\ OnCommandsSnapshot(1, TRUE)
    \/ display.subscribed /\ ResumeHandler(1, TRUE)
    \/ display.subscribed /\ OnClubSnapshot
    \/ SwitchDisplay

SpecTwo == InitTwo /\ [][NextTwo]_vars

\* A display and a controller watching the same club, the controller's clock
\* equal to the display's, ahead of it or behind it.
InitObservers ==
    /\ InitWith(LoadedStates \cup {overtimeState}, {"once"})
    /\ input = NoInput
    /\ LoadedWith({0 - MaxSkewMs, 0, MaxSkewMs})

NextObservers ==
    \/ \E intent \in Intents, id \in CommandIds :
          LowestFreeId(id) /\ sendCommand(intent, 1, id)
    \/ OnCommandsSnapshot(1, TRUE)
    \/ ResumeHandler(1, TRUE)
    \/ OnClubSnapshot
    \/ Tick(MaxTicks)
    \/ Render(TRUE)
    \/ OnControllerClubSnapshot
    \/ ControllerUpdate

SpecObservers == InitObservers /\ [][NextObservers]_vars

\* A controller whose controls follow its mirror: it sends a command only by a
\* click on an enabled control, and the display processes what it sends.
NextControls ==
    \/ \E intent \in ControllerIntents, id \in CommandIds :
          ControllerClick(intent, id)
    \/ OnCommandsSnapshot(1, TRUE)
    \/ ResumeHandler(1, TRUE)
    \/ OnClubSnapshot
    \/ OnControllerClubSnapshot

SpecControls == InitConfig /\ [][NextControls]_vars

\* handleOvertimeModeChange for each of the three radio buttons, beside the
\* session commands.
ModeIntents ==
    {[type |-> t, payload |-> EmptyPayload] : t \in {"START", "RESET"}}
    \cup {[type |-> "UPDATE_CONFIG", payload |-> [overtimeMode |-> m]] :
             m \in OvertimeMode}

\* The render loop under changes of the overtime mode: a timer that runs
\* through the whole beep schedule while the controller switches between
\* none, once and repeatedly, starts again and resets.
InitModes ==
    /\ InitWith({MergeFields(armedState,
                             [status |-> "running", startedAtMs |-> 0])},
                OvertimeMode)
    /\ input = NoInput
    /\ Loaded

NextModes ==
    \/ \E intent \in ModeIntents, id \in CommandIds :
          LowestFreeId(id) /\ sendCommand(intent, 1, id)
    \/ OnCommandsSnapshot(1, TRUE)
    \/ ResumeHandler(1, TRUE)
    \/ OnClubSnapshot
    \/ Tick(RenderMaxTicks)
    \/ handleAudioUnlock
    \/ Render(TRUE)

SpecModes == InitModes /\ [][NextModes]_vars

\* Preset lists a club's configuration can hold, every preset with
\* lower <= mid <= upper: the defaults, and a list with a preset whose
\* thresholds coincide and one of zero length.
PresetLists ==
    {DEFAULT_PRESETS,
     << [id |-> "p_0", lower |-> 0, mid |-> 0, upper |-> 0],
        [id |-> "p_half", lower |-> 30, mid |-> 30, upper |-> 60] >>}

\* A controller that sets presets only through the buttons made from the
\* club's preset list, and starts, stops and resets; the display processes
\* its commands.
InitPresets ==
    /\ store \in {[state |-> st,
                   config |-> [DEFAULT_CONFIG EXCEPT !.presets = pl]] :
                     st \in LoadedStates, pl \in PresetLists}
    /\ InitRest
    /\ input = NoInput
    /\ Loaded

NextPresets ==
    \/ \E k \in 1..2, id \in CommandIds : handlePresetSelect(k, id)
    \/ \E t \in {"START", "STOP", "RESET"}, id \in CommandIds :
          ControllerClick([type |-> t, payload |-> EmptyPayload], id)
    \/ OnCommandsSnapshot(1, TRUE)
    \/ ResumeHandler(1, TRUE)
    \/ OnClubSnapshot
    \/ OnControllerClubSnapshot

SpecPresets == InitPresets /\ [][NextPresets]_vars

\* The functions of lib/timer.ts on their own: elapsed values on and next to
\* every half minute, thresholds on the half minutes.
ElapsedValues == {e \in 0..MaxElapsed : e % 30 \in {0, 1, 29}}
ThresholdValues == {0, 30, 60, 90, 120}

TimerCalls ==
    {[fn |-> "shouldBeep", elapsed |-> e, upperSec |-> u, beeped |-> b,
      beepCount |-> c, overtimeMode |-> m] :
        e \in ElapsedValues, u \in {0, 120}, b \in BOOLEAN,
        c \in 0..MaxBeepCount, m \in OvertimeMode}
    \cup {[fn |-> "getColorZone", elapsed |-> e, lowerSec |-> t[1],
           midSec |-> t[2], upperSec |-> t[3]] :
             e \in ElapsedValues,
             t \in {x \in ThresholdValues \X ThresholdValues \X ThresholdValues :
                       x[1] <= x[2] /\ x[2] <= x[3]}}

InitPure ==
    /\ InitWith({INITIAL_CLUB_STATE}, {"once"})
    /\ input \in TimerCalls
    /\ Loaded

NextPure ==
    \/ EvalShouldBeep
    \/ EvalColorZone

SpecPure == InitPure /\ [][NextPure]_vars

----------------------------------------------------------------------------
(* Properties *)

CurCmd(hd) == hd.cmds[hd.i]

\* In this step invocation h enters processCommand for a command.
Began(h) ==
    /\ handlers'[h] # Idle
    /\ (handlers[h] = Idle \/ handlers'[h].i # handlers[h].i)

\* In this step processCommand returns to invocation h.
Completed(h) ==
    /\ handlers[h] # Idle
    /\ handlers[h].pc # "awaitUpdate"
    /\ handlers'[h] # handlers[h]

\* The transition table of the session state machine.
TransitionTable ==
    {<<"idle", "SET_PRESET", "armed">>, <<"armed", "SET_PRESET", "armed">>,
     <<"armed", "START", "running">>, <<"stopped", "START", "running">>,
     <<"running", "STOP", "stopped">>, <<"armed", "RESET", "idle">>,
     <<"running", "RESET", "idle">>, <<"stopped", "RESET", "idle">>}

\* C1: every change of state.status is a transition of the table, made by
\* the command type the table names (so SET_PRESET never changes the status
\* of a running or stopped timer).
C1_TransitionsInTable ==
    [][store'.state.status # store.state.status =>
         \E h \in Slots :
            /\ Began(h)
            /\ <<store.state.status, CurCmd(handlers'[h]).type,
                  store'.state.status>> \in TransitionTable]_vars

\* C2: within one display lifetime, as long as no store call has failed,
\* processCommand has run at most once for every command id.
C2_AppliedAtMostOnce ==
    failures = 0 => \A id \in CommandIds : applyCount[id] <= 1

\* C3: a delivered snapshot does not make the display process a command
\* whose id is already in processedCommandIds, and a snapshot of such commands
\* only leaves the club document as it is.
C3_RedeliveryLeavesState ==
    [][delivered' # {} =>
         /\ \A h \in Slots :
               Began(h) =>
                   CurCmd(handlers'[h]).id \notin processedCommandIds
         /\ (delivered' \subseteq processedCommandIds => store' = store)]_vars

\* A snapshot holding a command that was processed once, is recorded and is
\* still in the queue has just been delivered.
C3_Witness ==
    \E id \in delivered :
        /\ id \in processedCommandIds
        /\ id \in Ids(commands)
        /\ applyCount[id] = 1

\* C4: the command an invocation processes next precedes, in (sentAtMs, id)
\* order, every other command of its snapshot that is not yet processed.
C4_AppliedInSentAtOrder ==
    [][\A h \in Slots :
         Began(h) =>
             LET hd == handlers'[h]
             IN  \A k \in 1..Len(hd.cmds) :
                    (k # hd.i /\ hd.cmds[k].id \notin processedCommandIds')
                        => Before(CurCmd(hd), hd.cmds[k])]_vars

\* An invocation is processing the command that was appended second but
\* stamped first, with the other one still waiting behind it.
C4_Witness ==
    \E h \in Slots :
        /\ handlers[h] # Idle
        /\ handlers[h].i = 1
        /\ Len(handlers[h].cmds) = 2
        /\ Len(commands) = 2
        /\ commands[1] = handlers[h].cmds[2]
        /\ commands[2] = handlers[h].cmds[1]
        /\ commands[2].sentAtMs < commands[1].sentAtMs

\* C5: START processed while state.status is idle or running, and STOP
\* processed while it is idle, armed or stopped, leave every field of state
\* unchanged.
C5_NoOpLeavesState ==
    [][\A h \in Slots :
         (/\ Began(h)
          /\ \/ /\ CurCmd(handlers'[h]).type = "START"
                /\ store.state.status \in {"idle", "running"}
             \/ /\ CurCmd(handlers'[h]).type = "STOP"
                /\ store.state.status \in {"idle", "armed", "stopped"})
         => store'.state = store.state]_vars

C7_FailedNotRecorded ==
    [][\A h \in Slots :
         (Completed(h) /\ handlers[h].pc \in {"updateFailed", "deleteFailed"})
         => CurCmd(handlers[h]).id \notin processedCommandIds']_vars

\* C8: once a frame has shown the stopped timer, later frames of the same
\* stopped state show the same time and the same colour.
C8_StoppedDisplayFrozen ==
    [][(/\ shown.status.text = "Stopped"
        /\ shown'.status.text = "Stopped"
        /\ currentClub' = currentClub)
       => (shown'.time = shown.time /\ shown'.color = shown.color)]_vars

\* C9: in mode once at most one beep is played between two status writes.
C9_BeepOnce == fired.once <= 1

\* C10: in mode repeatedly a beep is the k-th of its running session only for
\* k <= 4 and only once elapsed - upperSec has reached the k-th value of the
\* schedule.
C10_BeepSchedule ==
    [][fired'.rep # fired.rep /\ fired'.rep # 0 =>
         /\ fired'.rep <= Len(OVERTIME_BEEP_SCHEDULE)
         /\ FrameElapsed(currentClub.state, now) - currentClub.state.upperSec
                >= OVERTIME_BEEP_SCHEDULE[fired'.rep]]_vars

\* C11: shouldBeep returns what the reference definition gives: false in
\* mode none, false while elapsed - upper < 30, then in mode once the negation
\* of beeped, and in mode repeatedly whether beepCount < 4 and elapsed - upper
\* has reached entry beepCount (counted from 0) of [30, 60, 120, 180].
C11_ShouldBeepReference ==
    (output.done /\ input.fn = "shouldBeep") =>
        output.value =
            (IF input.overtimeMode = "none" THEN FALSE
             ELSE IF input.elapsed - input.upperSec < 30 THEN FALSE
             ELSE IF input.overtimeMode = "once" THEN ~input.beeped
             ELSE /\ input.beepCount < 4
                  /\ input.elapsed - input.upperSec
                         >= <<30, 60, 120, 180>>[input.beepCount + 1])

\* shouldBeep was called for the fourth beep of the schedule and said yes.
C11_Witness ==
    /\ output.done
    /\ input.fn = "shouldBeep"
    /\ input.overtimeMode = "repeatedly"
    /\ input.beepCount = 3
    /\ input.elapsed - input.upperSec = 180
    /\ output.value = TRUE

\* C12: for lower <= mid <= upper getColorZone returns neutral below lower,
\* green from lower to below mid, amber from mid to below upper and red from
\* upper on, a value equal to a threshold falling in the band above it.
C12_ColorZoneBands ==
    (output.done /\ input.fn = "getColorZone") =>
        /\ output.value = "neutral" <=> input.elapsed < input.lowerSec
        /\ output.value = "green" <=>
               (input.lowerSec <= input.elapsed /\ input.elapsed < input.midSec)
        /\ output.value = "amber" <=>
               (input.midSec <= input.elapsed /\ input.elapsed < input.upperSec)
        /\ output.value = "red" <=> input.upperSec <= input.elapsed

\* getColorZone was called with elapsed on the middle threshold of 60/90/120
\* and returned amber.
C12_Witness ==
    /\ output.done
    /\ input.fn = "getColorZone"
    /\ input.lowerSec = 60 /\ input.midSec = 90 /\ input.upperSec = 120
    /\ input.elapsed = 90
    /\ output.value = "amber"

\* C13: as long as the observer sees the same running session (the same
\* startedAtMs), the elapsed seconds it computes never decrease as its clock
\* advances; and the elapsed seconds of a null startedAtMs are 0.
C13_ElapsedMonotone ==
    [][/\ (/\ currentClub # NoClub
           /\ currentClub' # NoClub
           /\ currentClub.state.status = "running"
           /\ currentClub'.state.status = "running"
           /\ currentClub'.state.startedAtMs = currentClub.state.startedAtMs)
          => getElapsedSeconds(currentClub'.state.startedAtMs, now')
                >= getElapsedSeconds(currentClub.state.startedAtMs, now)
       /\ (currentClub' # NoClub /\ currentClub'.state.startedAtMs = NullMs)
          => getElapsedSeconds(currentClub'.state.startedAtMs, now') = 0]_vars

\* The display sees a running session two minutes or more after its start.
C13_Witness ==
    /\ currentClub # NoClub
    /\ currentClub.state.status = "running"
    /\ now > currentClub.state.startedAtMs
    /\ getElapsedSeconds(currentClub.state.startedAtMs, now) >= 120

\* C14: a controller action appends exactly one command and leaves the club
\* document alone; state and config change only in a step in which the
\* display enters processCommand or records a beep.
C14_ControllersOnlyAppend ==
    [][/\ usedIds' # usedIds =>
            /\ store' = store
            /\ Len(commands') = Len(commands) + 1
            /\ SubSeq(commands', 1, Len(commands)) = commands
       /\ store' # store =>
            \/ \E h \in Slots : Began(h)
            \/ currentClub # NoClub /\ BeepDue(currentClub, now)]_vars

\* The controller has sent a preset and a show-timer change, nothing has been
\* processed, and the club document is as it was loaded.
C14_Witness ==
    /\ Len(commands) = 2
    /\ commands[1].type = "SET_PRESET"
    /\ commands[2].type = "UPDATE_CONFIG"
    /\ "showTimer" \in DOMAIN commands[2].payload
    /\ \A id \in CommandIds : applyCount[id] = 0
    /\ store.state = INITIAL_CLUB_STATE
    /\ store.config = DEFAULT_CONFIG

C16_TotalMachine ==
    [][/\ store'.state.status \in ClubStatus
       /\ \A h \in Slots :
             Began(h) =>
                \/ store' = store
                \/ /\ CurCmd(handlers'[h]).type = "UPDATE_CONFIG"
                   /\ store'.state = store.state
                \/ <<store.state.status, CurCmd(handlers'[h]).type,
                      store'.state.status>> \in TransitionTable]_vars

\* C17: a SET_PRESET whose payload lacks a threshold, or carries one that is
\* not a number, leaves the club document (state and config) as it was.
C17_MalformedDropped ==
    [][\A h \in Slots :
         (/\ Began(h)
          /\ CurCmd(handlers'[h]).type = "SET_PRESET"
          /\ \E k \in {"lowerSec", "midSec", "upperSec"} :
                \/ k \notin DOMAIN CurCmd(handlers'[h]).payload
                \/ CurCmd(handlers'[h]).payload[k] = NotANumber)
         => store' = store]_vars

\* C18: every failure of a store operation is caught where the call is made:
\* no rejection leaves a handler or callback of the display or the controller
\* uncaught, and a step in which a store call fails leaves the display's
\* mirror as it was.
C18_FailuresCaught ==
    [][/\ escaped' = {}
       /\ failures' # failures => currentClub' = currentClub]_vars

C20_EveryCommandConsumed ==
    \A id \in CommandIds :
        (id \in Ids(commands)) ~> (id \notin Ids(commands) /\ applyCount[id] > 0)

\* The thresholds of a payload are all there and are durations.
Thresholds == {"lowerSec", "midSec", "upperSec"}

\* In this step invocation h issues the update for a command.
Wrote(h) ==
    /\ Began(h)
    /\ ~handlers'[h].noop
    /\ handlers'[h].pc = "awaitUpdate"

\* C23: processing a SET_PRESET whose payload carries the three thresholds,
\* while state.status is idle or armed, gives status armed, presetId and the
\* thresholds of the payload, startedAtMs null, beeped false, beepCount 0, and
\* leaves the rest of the document alone.
C23_SetPresetArms ==
    [][\A h \in Slots :
         (/\ Began(h)
          /\ CurCmd(handlers'[h]).type = "SET_PRESET"
          /\ store.state.status \in {"idle", "armed"}
          /\ \A k \in Thresholds :
                /\ k \in DOMAIN CurCmd(handlers'[h]).payload
                /\ CurCmd(handlers'[h]).payload[k] >= 0)
         => LET pl == CurCmd(handlers'[h]).payload
            IN  store' = [store EXCEPT !.state =
                    MergeFields(@, [status |-> "armed",
                                    presetId |-> pl.presetId,
                                    lowerSec |-> pl.lowerSec,
                                    midSec |-> pl.midSec,
                                    upperSec |-> pl.upperSec,
                                    startedAtMs |-> NullMs,
                                    beeped |-> FALSE,
                                    beepCount |-> 0])]]_vars

\* The update of a SET_PRESET for the second preset has been issued on a club
\* the mirror still shows idle: the club is armed with that preset.
C23_Witness ==
    /\ \E h \in Slots :
          /\ handlers[h] # Idle
          /\ handlers[h].pc = "awaitUpdate"
          /\ CurCmd(handlers[h]).type = "SET_PRESET"
          /\ CurCmd(handlers[h]).payload = presetPayload(DEFAULT_PRESETS[2])
    /\ currentClub # NoClub
    /\ currentClub.state.status = "idle"
    /\ store.state.status = "armed"
    /\ store.state.presetId = DEFAULT_PRESETS[2].id
    /\ store.state.lowerSec = DEFAULT_PRESETS[2].lower
    /\ store.state.midSec = DEFAULT_PRESETS[2].mid
    /\ store.state.upperSec = DEFAULT_PRESETS[2].upper
    /\ store.state.startedAtMs = NullMs

\* C24: processing a START while state.status is armed or stopped gives
\* status running, startedAtMs the display's clock at that moment (so the
\* elapsed time is 0 again, also from stopped), beeped false, beepCount 0, and
\* leaves presetId, the thresholds and config alone.
C24_StartRuns ==
    [][\A h \in Slots :
         (/\ Began(h)
          /\ CurCmd(handlers'[h]).type = "START"
          /\ store.state.status \in {"armed", "stopped"})
         => /\ store' = [store EXCEPT !.state =
                   MergeFields(@, [status |-> "running", startedAtMs |-> now,
                                   beeped |-> FALSE, beepCount |-> 0])]
            /\ getElapsedSeconds(store'.state.startedAtMs, now) = 0]_vars

\* C25: processing a STOP while state.status is running changes status to
\* stopped and nothing else of the document.
C25_StopFreezes ==
    [][\A h \in Slots :
         (/\ Began(h)
          /\ CurCmd(handlers'[h]).type = "STOP"
          /\ store.state.status = "running")
         => store' = [store EXCEPT !.state.status = "stopped"]]_vars

\* C26: processing a RESET while state.status is armed, running or stopped
\* gives status idle, presetId null, thresholds 0, startedAtMs null, beeped
\* false, beepCount 0, and leaves config alone.
C26_ResetClears ==
    [][\A h \in Slots :
         (/\ Began(h)
          /\ CurCmd(handlers'[h]).type = "RESET"
          /\ store.state.status \in {"armed", "running", "stopped"})
         => /\ store'.state =
                   MergeFields(store.state,
                               [status |-> "idle", presetId |-> Null,
                                lowerSec |-> 0, midSec |-> 0, upperSec |-> 0,
                                startedAtMs |-> NullMs, beeped |-> FALSE,
                                beepCount |-> 0])
            /\ store'.config = store.config]_vars

\* The update of a RESET has been issued on a club the mirror still shows
\* running, after the overtime mode had been changed: the state is cleared,
\* the changed configuration is kept.
C26_Witness ==
    /\ \E h \in Slots :
          /\ handlers[h] # Idle
          /\ handlers[h].pc = "awaitUpdate"
          /\ CurCmd(handlers[h]).type = "RESET"
    /\ currentClub # NoClub
    /\ currentClub.state.status = "running"
    /\ store.state.status = "idle"
    /\ store.state.presetId = Null
    /\ store.state.upperSec = 0
    /\ store.state.startedAtMs = NullMs
    /\ store.config.overtimeMode = "repeatedly"

\* C30: state.seq never decreases, and every update the display issues for
\* a command that changes state raises it by one.
C30_SeqCounts ==
    [][/\ store'.state.seq >= store.state.seq
       /\ \A h \in Slots :
             (Wrote(h) /\ CurCmd(handlers'[h]).type # "UPDATE_CONFIG")
             => store'.state.seq = store.state.seq + 1]_vars

\* The fields of a state that a beep does not write.
Session(state) == MergeFields(state, [beeped |-> FALSE, beepCount |-> 0])

\* Since the last reload the display has run no command through its switch,
\* and the queue was empty at the reload.
Recovered ==
    /\ restart.n > 0
    /\ restart.queue = << >>
    /\ applyCount = restart.applied

\* C21: a reload of the display writes nothing; after a reload with an empty
\* queue, and until a command is processed, the stored session (all but the
\* beep fields) and the configuration are those of before the reload, the
\* mirror once read again holds the same session, and for a running timer the
\* display's elapsed seconds are the clock minus the startedAtMs of before
\* the reload.
C21_ReloadKeepsTimer ==
    [][/\ restart'.n # restart.n => store' = store
       /\ Recovered' =>
             /\ Session(store'.state) = Session(restart'.store.state)
             /\ store'.config = restart'.store.config
             /\ currentClub' # NoClub =>
                   /\ Session(currentClub'.state) = Session(store'.state)
                   /\ currentClub'.state.status = "running" =>
                         FrameElapsed(currentClub'.state, now') =
                            (now' - restart'.store.state.startedAtMs) \div 1000
      ]_vars

\* After a reload with an empty queue the display has read the running club
\* again and shows it two and a half minutes into its time, in overtime.
C21_Witness ==
    /\ Recovered
    /\ processedCommandIds = {}
    /\ currentClub # NoClub
    /\ currentClub.state.status = "running"
    /\ currentClub.state.startedAtMs = restart.store.state.startedAtMs
    /\ shown.overtime
    /\ shown.time = formatTime((now - restart.store.state.startedAtMs) \div 1000)

\* C22: when the first command a reloaded display processes is a SET_PRESET or
\* RESET that the display had applied before the reload, with a later command
\* run after it and deleted, and the state is still the one of before the
\* reload, then the state after the re-application is that state too.
C22_ReapplicationSafe ==
    [][\A h \in Slots :
         (/\ Began(h)
          /\ restart.n > 0
          /\ applyCount = restart.applied
          /\ store.state = restart.store.state
          /\ CurCmd(handlers'[h]).type \in {"SET_PRESET", "RESET"}
          /\ restart.applied[CurCmd(handlers'[h]).id] > 0
          /\ \E k \in CommandIds :
                /\ k > CurCmd(handlers'[h]).id
                /\ restart.applied[k] > 0
                /\ k \notin Ids(commands))
         => store'.state = restart.store.state]_vars

\* C27: a command is not applied to state by two displays: when a display
\* issues the state update of a SET_PRESET or RESET, no other display has run
\* that command.
C27_OneAuthority ==
    [][\A h \in Slots :
         (/\ Wrote(h)
          /\ CurCmd(handlers'[h]).type \in {"SET_PRESET", "RESET"}
          /\ other # NoDisplay
          /\ other' = other)
         => other.applyCount[CurCmd(handlers'[h]).id] = 0]_vars

\* C28: handleCreateClub writes the initial document only after its getClub
\* found no club, and the step in which it goes on from that result leaves a
\* club that exists as it is.
C28_CreateKeepsExisting ==
    [][(display.pc = "awaitGetClub" /\ display'.pc = "idle" /\ other' = other)
         => /\ store' # store => display.got = "null"
            /\ store # NoClub => store' = store]_vars

\* C29: when the controller refreshes the time it shows, from a mirror whose
\* state is that of the display's mirror at the same instant, and the timer
\* is running or stopped, it shows the elapsed time the display computes.
C29_SameElapsedEverywhere ==
    [][(/\ controllerTimer'.time # controllerTimer.time
        /\ currentClub # NoClub
        /\ controllerTimer.currentClub # NoClub
        /\ controllerTimer.currentClub.state = currentClub.state
        /\ currentClub.state.status \in {"running", "stopped"})
       => controllerTimer'.time =
             formatTime(FrameElapsed(currentClub.state, now))]_vars

\* C31: a command leaves the queue only in a step in which an invocation goes
\* on from the successful update for that command to its delete (or finds a
\* START or STOP to ask for no update); when the update has failed, the return
\* of processCommand leaves the command in the queue and the invocation goes on
\* to the next command of its snapshot that is not yet processed.
C31_DeleteAfterUpdate ==
    [][/\ \A id \in Ids(commands) \ Ids(commands') :
             \E h \in Slots :
                \/ /\ handlers[h] # Idle
                   /\ handlers[h].pc = "awaitUpdate"
                   /\ CurCmd(handlers[h]).id = id
                   /\ handlers'[h].pc = "awaitDelete"
                \/ /\ Began(h)
                   /\ handlers'[h].noop
                   /\ CurCmd(handlers'[h]).type \in {"START", "STOP"}
                   /\ CurCmd(handlers'[h]).id = id
       /\ \A h \in Slots :
             (Completed(h) /\ handlers[h].pc = "updateFailed")
             => LET hd == handlers[h]
                IN  /\ CurCmd(hd).id \in Ids(commands)
                        => CurCmd(hd).id \in Ids(commands')
                    /\ (\E k \in (hd.i + 1)..Len(hd.cmds) :
                            hd.cmds[k].id \notin processedCommandIds')
                        => (handlers'[h] # Idle /\ handlers'[h].i > hd.i)]_vars

\* The update of a SET_PRESET failed on an idle club: the club is as it was,
\* the command is still in the queue, and the invocation is at the START that
\* came behind it in the snapshot.
C31_Witness ==
    \E h \in Slots :
        /\ handlers[h] # Idle
        /\ handlers[h].i = 2
        /\ handlers[h].cmds[1].type = "SET_PRESET"
        /\ handlers[h].cmds[2].type = "START"
        /\ handlers[h].cmds[1].id \in Ids(commands)
        /\ handlers[h].cmds[1].id \in processedCommandIds
        /\ applyCount[handlers[h].cmds[1].id] = 1
        /\ store.state = INITIAL_CLUB_STATE
        /\ failures = 1

\* C32: a controller whose mirror holds the stored state sends START only in
\* armed or stopped, STOP only in running, RESET in no idle club and
\* SET_PRESET in no running one.
C32_ControlsFollowStatus ==
    [][(/\ usedIds' # usedIds
        /\ controllerTimer.currentClub # NoClub
        /\ controllerTimer.currentClub.state = store.state)
       => LET type == commands'[Len(commands')].type
              status == store.state.status
          IN  /\ type = "START" => status \in {"armed", "stopped"}
              /\ type = "STOP" => status = "running"
              /\ type = "RESET" => status # "idle"
              /\ type = "SET_PRESET" => status # "running"]_vars

\* C33: when the display enters processCommand for a START or STOP, it
\* decides between update and no-op as the stored state, the result of every
\* command applied so far, requires: START writes exactly when that status is
\* armed or stopped, STOP exactly when it is running.
C33_PreconditionOnAppliedState ==
    [][\A h \in Slots :
         (Began(h) /\ CurCmd(handlers'[h]).type \in {"START", "STOP"})
         => handlers'[h].noop =
               (CommandWrite(CurCmd(handlers'[h]), store, now).kind = "none")
      ]_vars

\* C34: in the club document startedAtMs is set exactly when status is
\* running or stopped.
C34_StartedIffTimed ==
    store # NoClub =>
        (store.state.startedAtMs # NullMs
            <=> store.state.status \in {"running", "stopped"})

\* C35: in the club document beeped is true exactly when beepCount is
\* positive.
C35_BeepedIffCounted ==
    store # NoClub => (store.state.beeped <=> store.state.beepCount > 0)

\* In mode repeatedly the second beep of a running session has been written.
C35_Witness ==
    /\ store # NoClub
    /\ store.state.status = "running"
    /\ store.config.overtimeMode = "repeatedly"
    /\ store.state.beeped
    /\ store.state.beepCount = 2
    /\ fired.rep = 2

\* C36: while status is idle or armed, beeped is false and beepCount is 0.
C36_NoBeepOutsideSession ==
    (store # NoClub /\ store.state.status \in {"idle", "armed"}) =>
        (~store.state.beeped /\ store.state.beepCount = 0)

\* C37: in the club document beepCount is between 0 and the length of the
\* beep schedule.
C37_BeepCountInSchedule ==
    store # NoClub =>
        (store.state.beepCount >= 0
         /\ store.state.beepCount <= Len(OVERTIME_BEEP_SCHEDULE))

\* A running session beeped once in mode once, the mode was changed to
\* repeatedly, and the session has gone through the rest of the schedule.
C37_Witness ==
    /\ store # NoClub
    /\ store.state.status = "running"
    /\ store.config.overtimeMode = "repeatedly"
    /\ store.state.beepCount = Len(OVERTIME_BEEP_SCHEDULE)
    /\ fired.once = 1
    /\ fired.rep = 3

\* C38: with every SET_PRESET made by a preset button from a preset list
\* whose presets have lower <= mid <= upper, the thresholds of the club
\* document satisfy 0 <= lowerSec <= midSec <= upperSec.
C38_ThresholdsOrdered ==
    store # NoClub =>
        /\ 0 <= store.state.lowerSec
        /\ store.state.lowerSec <= store.state.midSec
        /\ store.state.midSec <= store.state.upperSec

\* The display has applied the SET_PRESET of the button of a preset whose
\* lower and middle thresholds coincide.
C38_Witness ==
    /\ store # NoClub
    /\ store.state.status = "armed"
    /\ store.state.presetId = "p_half"
    /\ store.state.lowerSec = 30
    /\ store.state.midSec = 30
    /\ store.state.upperSec = 60
    /\ \E id \in CommandIds : applyCount[id] > 0

\* C39: when an invocation enters processCommand for a command, no store
\* call having failed, every command of its snapshot that was sent before it
\* (appended earlier, with a stamp that is not later) and is still in the
\* queue has been processed already.
C39_SentOrderKept ==
    [][\A h \in Slots :
         (Began(h) /\ failures' = 0) =>
            LET hd == handlers'[h]
            IN  \A k1, k2 \in 1..Len(commands) :
                   (/\ k1 < k2
                    /\ commands[k2].id = CurCmd(hd).id
                    /\ commands[k1].sentAtMs <= commands[k2].sentAtMs
                    /\ commands[k1].id \in Ids(hd.cmds))
                   => commands[k1].id \in processedCommandIds']_vars

============================================================================
